---- MODULE Spec2Model ----
(***************************************************************************)
(* Model of the broadcast dispatcher of the Telegram broadcast app:        *)
(* src/app.py, "Send" tab (send_one, broadcast, broadcast.worker and the   *)
(* script code that runs them), on a single asyncio event loop.            *)
(*                                                                         *)
(* One step of the model is one uninterrupted run of a coroutine between   *)
(* two suspension points (await of a semaphore future, of a delivery       *)
(* client call or of asyncio.sleep).  Wall-clock time is not modelled: a   *)
(* sleep is a suspension that ends at some later step, and the elapsed     *)
(* time and rate shown next to the counters are left out.                  *)
(***************************************************************************)
EXTENDS Integers, Sequences, FiniteSets, TLC

\* ---------------------------------------------------------------- bounds
MaxRecipients == 3
MaxConcurrent == 2

\* the chat ids that may appear in a recipient list (duplicates allowed)
RecipientIds == {"1", "2"}

\* ------------------------------------------------------------- constants
\* lower end of the "Concurrent Sends" slider
MinConcurrent == 1

\* the number of recipient lists the history keeps
MAX_HISTORY_ENTRIES == 10

VARIABLES
    token,          \* the bot token is non-empty
    caption_html,   \* the message text is non-blank
    confirm_optin,  \* the opt-in checkbox is ticked
    chat_ids,       \* the recipient list, in input order
    image_bytes,    \* an image was uploaded (img_bytes is truthy)
    dry_run,        \* the dry-run checkbox
    max_concurrent, \* the "Concurrent Sends" slider
    phase,          \* position of the script: form, clicked, running, returned,
                    \* shown, raised
    error,          \* the top-level error the run ended with, or "none"
    sem_value,      \* asyncio.Semaphore._value
    sem_waiters,    \* asyncio.Semaphore._waiters: the tasks queued for a slot, FIFO
    pc,             \* position of each worker task, by input position
    results,        \* broadcast.results: sequence of <<chat_id, status>>
    owner,          \* for each entry of results, the task that appended it
    snapshots,      \* the progress snapshots shown so far
    calls,          \* the delivery-client calls made so far: <<task, method>>
    call_outcome,   \* for each task, what its delivery-client call did, or "none"
    returned,       \* the script's results: what run_until_complete gave back
    summary,        \* <<ok, dr, fail>> of the result summary, <<>> before it
    side,           \* the two per-recipient sends run side by side (SpecAdapter)
    chat_history,   \* st.session_state.chat_history: the saved recipient lists
    total_sent,     \* st.session_state.total_sent
    total_failed,   \* st.session_state.total_failed
    started         \* the recipient lists the send button was pressed for, in order

vars == <<token, caption_html, confirm_optin, chat_ids, image_bytes, dry_run,
          max_concurrent, phase, error, sem_value, sem_waiters, pc, results,
          owner, snapshots, calls, call_outcome, returned, summary, side,
          chat_history, total_sent, total_failed, started>>

\* the state that outlives a run of the script
session == <<chat_history, total_sent, total_failed, started>>

inputs == <<token, caption_html, confirm_optin, chat_ids, image_bytes,
            dry_run, max_concurrent>>

\* ------------------------------------------------------ recipient lists
RecipientLists == UNION {[1..n -> RecipientIds] : n \in 0..MaxRecipients}

Tasks_AtLeastOne == 1..(IF Len(chat_ids) > 1 THEN Len(chat_ids) ELSE 1)

Tasks == 1..Len(chat_ids)

\* --------------------------------------------------- the delivery client
\* Exception classes the delivery client raises, each with the classes it
\* is an instance of (telegram.error, imported by the app).
Bases(e) ==
    CASE e = "Forbidden"     -> {"Forbidden", "TelegramError", "Exception"}
      [] e = "BadRequest"    -> {"BadRequest", "NetworkError", "TelegramError", "Exception"}
      [] e = "NetworkError"  -> {"NetworkError", "TelegramError", "Exception"}
      [] e = "TelegramError" -> {"TelegramError", "Exception"}
      [] e = "Exception"     -> {"Exception"}
      [] OTHER               -> {}

\* str(e): the text of the error; the class name stands for it
ErrorText(e) == e

\* the errors raised in the runs explored: one for each except clause of
\* send_one
RaisedInRun == {"Forbidden", "Exception"}

\* what a delivery-client call can do: return, or raise one of the errors
CallOutcomes == {"ok"} \cup RaisedInRun

\* what a call of a progress widget can do
UiOutcomes == {"ok", "raise"}

\* ------------------------------------------------------------- send_one
\* The except clauses of send_one: the status returned for a raised error,
\* or caught = FALSE when no clause matches and the error propagates.
send_one_except_TelegramErrorOnly(e) ==
    IF "TelegramError" \in Bases(e)
    THEN [caught |-> TRUE, status |-> "telegram_error: " \o ErrorText(e)]
    ELSE [caught |-> FALSE, status |-> ""]

send_one_except(e) ==
    IF "TelegramError" \in Bases(e)
    THEN [caught |-> TRUE, status |-> "telegram_error: " \o ErrorText(e)]
    ELSE IF "Exception" \in Bases(e)
    THEN [caught |-> TRUE, status |-> "error: " \o ErrorText(e)]
    ELSE [caught |-> FALSE, status |-> ""]

\* the branch of send_one taken once the slot is held: the simulated send
\* of a dry run, or a real call of the delivery client
SimulatedSend_Never(dry) == FALSE

SimulatedSend(dry) == dry

\* the delivery-client method send_one calls
send_method_AlwaysText(img) == "send_message"

send_method(img) == IF img THEN "send_photo" ELSE "send_message"

\* ------------------------------------------------------------ semaphore
\* asyncio.Semaphore(max_concurrent): the initial number of free slots
Semaphore_OneMore(n) == n + 1

Semaphore_None(n) == 0

Semaphore(n) == n

\* Semaphore.locked(): no slot can be taken without waiting
locked(value, waiters) == value = 0 \/ Len(waiters) > 0

\* "async with sem" releases the slot on every exit of the block, whatever
\* status the block returned ("" when an error left the block)
async_with_exit_SuccessOnly(status) == status \in {"success", "dry_run"}

async_with_exit(status) == TRUE

\* the tasks that hold a slot ("hung": inside a delivery-client call that
\* never responds)
Holders ==
    {i \in DOMAIN pc : pc[i] \in {"admitted", "sending", "hung", "dry_sleep", "pacing"}}

\* --------------------------------------------------------------- worker
IsSuccess(s) == s = "success"
IsDryRun(s)  == s = "dry_run"
IsFailure_NotSuccess(s) == s # "success"

IsFailure(s) == s \notin {"success", "dry_run"}

\* does status s count as kind ("sent", "dry" or "failed")
Counts(s, kind) ==
    CASE kind = "sent"   -> IsSuccess(s)
      [] kind = "dry"    -> IsDryRun(s)
      [] kind = "failed" -> IsFailure(s)

RECURSIVE CountStatus_UntilFirstMiss(_, _)
CountStatus_UntilFirstMiss(res, kind) ==
    IF res = <<>> \/ ~Counts(Head(res)[2], kind) THEN 0
    ELSE 1 + CountStatus_UntilFirstMiss(Tail(res), kind)

RECURSIVE CountStatus(_, _)
\* sum(1 for _, s in results if P(s)), with P given as a set of kinds
CountStatus(res, kind) ==
    IF res = <<>> THEN 0
    ELSE LET s == res[Len(res)][2]
             hit == CASE kind = "sent"   -> IsSuccess(s)
                      [] kind = "dry"    -> IsDryRun(s)
                      [] kind = "failed" -> IsFailure(s)
         IN  CountStatus(SubSeq(res, 1, Len(res) - 1), kind) + (IF hit THEN 1 ELSE 0)

\* results.append(res)
results_append_Twice(res, entry) == Append(Append(res, entry), entry)

results_append_DropFailure(res, entry) ==
    IF IsFailure(entry[2]) THEN res ELSE Append(res, entry)

results_append_Front(res, entry) == <<entry>> \o res

results_append_Overwrite(res, entry) ==
    IF res = <<>> THEN <<entry>>
    ELSE Append([res EXCEPT ![Len(res)] = entry], entry)

results_append(res, entry) == Append(res, entry)

\* len(results), the completed count of the progress line
completed_BeforeAppend(res) == Len(res) - 1

completed(res) == Len(res)

\* the values the worker shows after a completion
Snapshot(res, total) ==
    [completed |-> completed(res),
     total     |-> total,
     sent      |-> CountStatus(res, "sent"),
     failed    |-> CountStatus(res, "failed"),
     dry       |-> CountStatus(res, "dry"),
     pending   |-> total - Len(res)]

\* ------------------------------------------------------------ broadcast
\* asyncio.gather(*workers) has a result: every worker has finished
gather_done_FirstCompleted(p) == \E i \in DOMAIN p : p[i] = "done"

gather_done(p) == \A i \in DOMAIN p : p[i] = "done"

\* asyncio.gather(*workers) has an exception: some worker raised
gather_raised(p) == \E i \in DOMAIN p : p[i] \in {"raised_send", "raised_ui"}

\* where broadcast goes after Bot(token=token)
after_Bot_Continue(constructed) == "running"

after_Bot(constructed) == IF constructed THEN "running" ELSE "raised"

\* the result summary of the script: ok, dr and fail
summary_fail_NoDryRun(res) == Len(res) - CountStatus(res, "sent")

summary_fail(res) == Len(res) - CountStatus(res, "sent") - CountStatus(res, "dry")

Summary(res) == <<CountStatus(res, "sent"), CountStatus(res, "dry"), summary_fail(res)>>

\* the side-by-side harness is not running
NoSide == [pc |-> "off"]

\* the entry saved for a recipient list ('date', the time of day, left out)
history_entry(ids) == [count |-> Len(ids), ids |-> ids]

\* lst[-n:]
LastN(lst, n) ==
    IF Len(lst) > n THEN SubSeq(lst, Len(lst) - n + 1, Len(lst)) ELSE lst

\* the history after the list ids is saved to it
history_save_KeepOldest(history, ids) ==
    LET h == Append(history, history_entry(ids)) IN
    IF Len(h) > MAX_HISTORY_ENTRIES THEN SubSeq(h, 1, MAX_HISTORY_ENTRIES) ELSE h

history_save(history, ids) ==
    LET h == Append(history, history_entry(ids)) IN
    IF Len(h) > MAX_HISTORY_ENTRIES THEN LastN(h, MAX_HISTORY_ENTRIES) ELSE h

\* total_sent and total_failed after a run with the summary s = <<ok, dr, fail>>
session_totals_DryAsSent(sent, failed, s) == <<sent + s[1] + s[2], failed + s[3]>>

session_totals(sent, failed, s) == <<sent + s[1], failed + s[3]>>

\* the pre-flight condition of the send button
send_enabled_NoOptin == token /\ caption_html /\ chat_ids # <<>>

send_enabled == token /\ caption_html /\ chat_ids # <<>> /\ confirm_optin

\* ----------------------------------------------------------------- Init
Init ==
    /\ token \in BOOLEAN
    /\ caption_html \in BOOLEAN
    /\ confirm_optin \in BOOLEAN
    /\ chat_ids \in RecipientLists
    /\ image_bytes \in BOOLEAN
    /\ dry_run \in BOOLEAN
    /\ max_concurrent \in MinConcurrent..MaxConcurrent
    /\ phase = "form"
    /\ error = "none"
    /\ sem_value = 0
    /\ sem_waiters = <<>>
    /\ pc = <<>>
    /\ results = <<>>
    /\ owner = <<>>
    /\ snapshots = <<>>
    /\ calls = <<>>
    /\ call_outcome = <<>>
    /\ returned = <<>>
    /\ summary = <<>>
    /\ side = NoSide
    /\ chat_history = <<>>
    /\ total_sent = 0
    /\ total_failed = 0
    /\ started = <<>>

\* -------------------------------------------------------------- actions
\* the send button is pressed
SendButton ==
    /\ phase = "form"
    /\ send_enabled
    /\ phase' = "clicked"
    /\ chat_history' = history_save(chat_history, chat_ids)
    /\ started' = Append(started, chat_ids)
    /\ UNCHANGED <<inputs, error, sem_value, sem_waiters, pc, results, owner,
                   snapshots, calls, call_outcome>>
    /\ UNCHANGED <<returned, summary, side>>
    /\ UNCHANGED <<total_sent, total_failed>>

\* broadcast starts: Bot(token=token), the semaphore, the result list and
\* gather's tasks, one per recipient
BroadcastStart(constructed) ==
    /\ phase = "clicked"
    /\ phase' = after_Bot(constructed)
    /\ error' = IF constructed THEN "none" ELSE "ConstructionFailure"
    /\ IF phase' = "running"
       THEN /\ sem_value' = Semaphore(max_concurrent)
            /\ pc' = [i \in Tasks |-> "pending"]
            /\ call_outcome' = [i \in Tasks |-> "none"]
       ELSE UNCHANGED <<sem_value, pc, call_outcome>>
    /\ UNCHANGED <<inputs, sem_waiters, results, owner, snapshots, calls>>
    /\ UNCHANGED <<returned, summary, side>>
    /\ UNCHANGED session

\* the body of "async with sem" up to its first suspension
EnterSend(i) ==
    IF SimulatedSend(dry_run)
    THEN /\ pc' = [pc EXCEPT ![i] = "dry_sleep"]
         /\ UNCHANGED calls
    ELSE /\ pc' = [pc EXCEPT ![i] = "sending"]
         /\ calls' = Append(calls, <<i, send_method(image_bytes)>>)

\* first step of worker i: send_one asks for a slot
WorkerStart(i) ==
    /\ phase = "running"
    /\ pc[i] = "pending"
    /\ \A j \in 1..(i - 1) : pc[j] # "pending"
    /\ IF locked(sem_value, sem_waiters)
       THEN /\ sem_waiters' = Append(sem_waiters, i)
            /\ pc' = [pc EXCEPT ![i] = "waiting"]
            /\ UNCHANGED <<sem_value, calls>>
       ELSE /\ sem_value' = sem_value - 1
            /\ EnterSend(i)
            /\ UNCHANGED sem_waiters
    /\ UNCHANGED <<inputs, phase, error, results, owner, snapshots, call_outcome>>
    /\ UNCHANGED <<returned, summary, side>>
    /\ UNCHANGED session

\* worker i, handed a slot by a release, resumes inside "async with sem"
WorkerAdmitted(i) ==
    /\ phase = "running"
    /\ pc[i] = "admitted"
    /\ EnterSend(i)
    /\ UNCHANGED <<inputs, phase, error, sem_value, sem_waiters, results,
                   owner, snapshots, call_outcome>>
    /\ UNCHANGED <<returned, summary, side>>
    /\ UNCHANGED session

\* Semaphore.release(): the slot goes to the first waiter, if any
Release_KeepWaiter(p) ==
    IF Len(sem_waiters) > 0
    THEN /\ sem_waiters' = sem_waiters
         /\ sem_value' = sem_value
         /\ pc' = [p EXCEPT ![Head(sem_waiters)] = "admitted"]
    ELSE /\ sem_waiters' = sem_waiters
         /\ sem_value' = sem_value + 1
         /\ pc' = p

Release_LastWaiter(p) ==
    IF Len(sem_waiters) > 0
    THEN /\ sem_waiters' = SubSeq(sem_waiters, 1, Len(sem_waiters) - 1)
         /\ sem_value' = sem_value
         /\ pc' = [p EXCEPT ![sem_waiters[Len(sem_waiters)]] = "admitted"]
    ELSE /\ sem_waiters' = sem_waiters
         /\ sem_value' = sem_value + 1
         /\ pc' = p

Release(p) ==
    IF Len(sem_waiters) > 0
    THEN /\ sem_waiters' = Tail(sem_waiters)
         /\ sem_value' = sem_value
         /\ pc' = [p EXCEPT ![Head(sem_waiters)] = "admitted"]
    ELSE /\ sem_waiters' = sem_waiters
         /\ sem_value' = sem_value + 1
         /\ pc' = p

\* send_one leaves "async with sem" with status ("" when an error no clause
\* caught leaves it) and the tasks continue from the positions p
LeaveSend(status, p) ==
    IF async_with_exit(status)
    THEN Release(p)
    ELSE /\ pc' = p
         /\ UNCHANGED <<sem_value, sem_waiters>>

\* send_one returned status to worker i: the slot is released, the result
\* appended and the progress widgets updated, all without suspension
Complete_StaleSnapshot(i, status, ui) ==
    /\ results' = results_append(results, <<chat_ids[i], status>>)
    /\ owner' = owner \o [k \in 1..(Len(results') - Len(results)) |-> i]
    /\ IF ui = "ok"
       THEN /\ snapshots' = Append(snapshots, Snapshot(results, Len(chat_ids)))
            /\ LeaveSend(status, [pc EXCEPT ![i] = "done"])
       ELSE /\ snapshots' = snapshots
            /\ LeaveSend(status, [pc EXCEPT ![i] = "raised_ui"])

Complete(i, status, ui) ==
    /\ results' = results_append(results, <<chat_ids[i], status>>)
    /\ owner' = owner \o [k \in 1..(Len(results') - Len(results)) |-> i]
    /\ IF ui = "ok"
       THEN /\ snapshots' = Append(snapshots, Snapshot(results', Len(chat_ids)))
            /\ LeaveSend(status, [pc EXCEPT ![i] = "done"])
       ELSE /\ snapshots' = snapshots
            /\ LeaveSend(status, [pc EXCEPT ![i] = "raised_ui"])

\* the delivery-client call of worker i returns or raises
CallReturns(i, outcome, ui) ==
    /\ phase = "running"
    /\ pc[i] = "sending"
    /\ IF outcome = "ok"
       THEN /\ ui = "ok"
            /\ pc' = [pc EXCEPT ![i] = "pacing"]
            /\ UNCHANGED <<sem_value, sem_waiters, results, owner, snapshots>>
       ELSE LET h == send_one_except(outcome) IN
            IF h.caught
            THEN Complete(i, h.status, ui)
            ELSE /\ ui = "ok"
                 /\ LeaveSend("", [pc EXCEPT ![i] = "raised_send"])
                 /\ UNCHANGED <<results, owner, snapshots>>
    /\ call_outcome' = [call_outcome EXCEPT ![i] = outcome]
    /\ UNCHANGED <<inputs, phase, error, calls>>
    /\ UNCHANGED <<returned, summary, side>>
    /\ UNCHANGED session

\* the sleep of worker i ends: the simulated latency of a dry run, or the
\* pacing sleep after a successful call
SleepEnds(i, ui) ==
    /\ phase = "running"
    /\ pc[i] \in {"dry_sleep", "pacing"}
    /\ Complete(i, IF pc[i] = "dry_sleep" THEN "dry_run" ELSE "success", ui)
    /\ UNCHANGED <<inputs, phase, error, calls, call_outcome>>
    /\ UNCHANGED <<returned, summary, side>>
    /\ UNCHANGED session

\* gather has its result: broadcast returns results to the script
BroadcastReturns ==
    /\ phase = "running"
    /\ gather_done(pc)
    /\ ~gather_raised(pc)
    /\ phase' = "returned"
    /\ returned' = results
    /\ UNCHANGED <<inputs, error, sem_value, sem_waiters, pc, results, owner,
                   snapshots, calls, call_outcome>>
    /\ UNCHANGED <<summary, side>>
    /\ UNCHANGED session

\* gather has an exception: it leaves broadcast and run_until_complete,
\* and the event loop stops
BroadcastRaises ==
    /\ phase = "running"
    /\ gather_raised(pc)
    /\ phase' = "raised"
    /\ error' = "WorkerException"
    /\ UNCHANGED <<inputs, sem_value, sem_waiters, pc, results, owner,
                   snapshots, calls, call_outcome>>
    /\ UNCHANGED <<returned, summary, side>>
    /\ UNCHANGED session

\* the script counts the outcomes of the returned results and shows them
ShowResults ==
    /\ phase = "returned"
    /\ phase' = "shown"
    /\ summary' = Summary(returned)
    /\ total_sent' = session_totals(total_sent, total_failed, summary')[1]
    /\ total_failed' = session_totals(total_sent, total_failed, summary')[2]
    /\ UNCHANGED <<inputs, error, sem_value, sem_waiters, pc, results, owner,
                   snapshots, calls, call_outcome, returned, side>>
    /\ UNCHANGED <<chat_history, started>>

\* the delivery-client call of worker i never responds
CallHangs(i) ==
    /\ phase = "running"
    /\ pc[i] = "sending"
    /\ pc' = [pc EXCEPT ![i] = "hung"]
    /\ UNCHANGED <<inputs, phase, error, sem_value, sem_waiters, results, owner,
                   snapshots, calls, call_outcome, returned, summary, side>>
    /\ UNCHANGED session

Next ==
    \/ SendButton
    \/ \E constructed \in BOOLEAN : BroadcastStart(constructed)
    \/ \E i \in DOMAIN pc : WorkerStart(i)
    \/ \E i \in DOMAIN pc : WorkerAdmitted(i)
    \/ \E i \in DOMAIN pc, outcome \in CallOutcomes, ui \in UiOutcomes :
          CallReturns(i, outcome, ui)
    \/ \E i \in DOMAIN pc, ui \in UiOutcomes : SleepEnds(i, ui)
    \/ BroadcastReturns
    \/ BroadcastRaises
    \/ ShowResults

Spec == Init /\ [][Next]_vars

\* broadcast called on its own, with any recipient list (the empty one
\* included) and the client construction still ahead
InitBroadcast ==
    /\ token = TRUE
    /\ caption_html = TRUE
    /\ confirm_optin = TRUE
    /\ chat_ids \in RecipientLists
    /\ image_bytes \in BOOLEAN
    /\ dry_run \in BOOLEAN
    /\ max_concurrent \in MinConcurrent..MaxConcurrent
    /\ phase = "clicked"
    /\ error = "none"
    /\ sem_value = 0
    /\ sem_waiters = <<>>
    /\ pc = <<>>
    /\ results = <<>>
    /\ owner = <<>>
    /\ snapshots = <<>>
    /\ calls = <<>>
    /\ call_outcome = <<>>
    /\ returned = <<>>
    /\ summary = <<>>
    /\ side = NoSide
    /\ chat_history = <<>>
    /\ total_sent = 0
    /\ total_failed = 0
    /\ started = <<>>

NextBroadcast ==
    \/ \E constructed \in BOOLEAN : BroadcastStart(constructed)
    \/ \E i \in DOMAIN pc : WorkerStart(i)
    \/ \E i \in DOMAIN pc : WorkerAdmitted(i)
    \/ \E i \in DOMAIN pc, outcome \in CallOutcomes, ui \in UiOutcomes :
          CallReturns(i, outcome, ui)
    \/ \E i \in DOMAIN pc, ui \in UiOutcomes : SleepEnds(i, ui)
    \/ BroadcastReturns
    \/ BroadcastRaises
    \/ ShowResults

SpecBroadcast == InitBroadcast /\ [][NextBroadcast]_vars

\* ------------------------------------------------- a session of broadcasts
\* how many times the send button is pressed in a session
MaxRuns == 3

\* the same in a session of simulated broadcasts
MaxBroadcasts == 11

\* the recipient lists loaded in a session
SessionLists == {<<"1">>, <<"2", "1">>}

\* the run state of a script run that has not reached the send button
FreshRun ==
    /\ phase' = "form"
    /\ error' = "none"
    /\ sem_value' = 0
    /\ sem_waiters' = <<>>
    /\ pc' = <<>>
    /\ results' = <<>>
    /\ owner' = <<>>
    /\ snapshots' = <<>>
    /\ calls' = <<>>
    /\ call_outcome' = <<>>
    /\ returned' = <<>>
    /\ summary' = <<>>

\* after a run is over the user loads a recipient list, sets the dry-run
\* checkbox and the script runs again; the session state is kept
Rerun(ids, dry, most) ==
    /\ phase \in {"shown", "raised"}
    /\ Len(started) < most
    /\ FreshRun
    /\ chat_ids' = ids
    /\ dry_run' = dry
    /\ UNCHANGED <<token, caption_html, confirm_optin, image_bytes, max_concurrent>>
    /\ UNCHANGED <<side, session>>

\* the "Reset All Statistics" button of the analytics tab, shown once a
\* total is positive
ResetStatistics ==
    /\ phase \in {"form", "shown", "raised"}
    /\ phase = "form" \/ Len(started) < MaxRuns
    /\ total_sent > 0 \/ total_failed > 0
    /\ total_sent' = 0
    /\ total_failed' = 0
    /\ chat_history' = <<>>
    /\ FreshRun
    /\ UNCHANGED <<inputs, side, started>>

InitSession ==
    /\ token = TRUE
    /\ caption_html = TRUE
    /\ confirm_optin = TRUE
    /\ chat_ids \in SessionLists
    /\ image_bytes = FALSE
    /\ dry_run \in BOOLEAN
    /\ max_concurrent = MinConcurrent
    /\ phase = "form"
    /\ error = "none"
    /\ sem_value = 0
    /\ sem_waiters = <<>>
    /\ pc = <<>>
    /\ results = <<>>
    /\ owner = <<>>
    /\ snapshots = <<>>
    /\ calls = <<>>
    /\ call_outcome = <<>>
    /\ returned = <<>>
    /\ summary = <<>>
    /\ side = NoSide
    /\ chat_history = <<>>
    /\ total_sent = 0
    /\ total_failed = 0
    /\ started = <<>>

NextSession ==
    \/ Next
    \/ \E ids \in SessionLists, dry \in BOOLEAN : Rerun(ids, dry, MaxRuns)
    \/ ResetStatistics

SpecSession == InitSession /\ [][NextSession]_vars

\* a long session: a first broadcast, real or simulated, and simulated
\* ones after it
InitHistory == InitSession

NextHistory ==
    \/ Next
    \/ \E ids \in SessionLists : Rerun(ids, TRUE, MaxBroadcasts)

SpecHistory == InitHistory /\ [][NextHistory]_vars

\* ------------------------------------------- the two sends, side by side
\* every error class of Bases
ErrorClasses == {"Forbidden", "BadRequest", "NetworkError", "TelegramError", "Exception"}

\* one invocation of send_one with its slot held, as a function of what the
\* delivery client does: the calls made, the status returned and whether
\* the pacing sleep was slept
send_one(dry, img, outcome) ==
    IF SimulatedSend(dry)
    THEN [calls |-> <<>>, status |-> "dry_run", paced |-> FALSE, caught |-> TRUE]
    ELSE IF outcome = "ok"
    THEN [calls |-> <<send_method(img)>>, status |-> "success", paced |-> TRUE,
          caught |-> TRUE]
    ELSE [calls |-> <<send_method(img)>>, status |-> send_one_except(outcome).status,
          paced |-> FALSE, caught |-> send_one_except(outcome).caught]

\* the except clauses of utils.send_message_to_chat, first match first
send_message_to_chat_except_NoCatchAll(e) ==
    IF "Forbidden" \in Bases(e)
    THEN [caught |-> TRUE,
          status |-> "forbidden: Bot was blocked by user or chat not found - " \o ErrorText(e)]
    ELSE IF "BadRequest" \in Bases(e)
    THEN [caught |-> TRUE, status |-> "bad_request: Invalid request - " \o ErrorText(e)]
    ELSE IF "NetworkError" \in Bases(e)
    THEN [caught |-> TRUE, status |-> "network_error: Connection issue - " \o ErrorText(e)]
    ELSE IF "TelegramError" \in Bases(e)
    THEN [caught |-> TRUE, status |-> "telegram_error: " \o ErrorText(e)]
    ELSE [caught |-> FALSE, status |-> ""]

send_message_to_chat_except(e) ==
    IF "Forbidden" \in Bases(e)
    THEN [caught |-> TRUE,
          status |-> "forbidden: Bot was blocked by user or chat not found - " \o ErrorText(e)]
    ELSE IF "BadRequest" \in Bases(e)
    THEN [caught |-> TRUE, status |-> "bad_request: Invalid request - " \o ErrorText(e)]
    ELSE IF "NetworkError" \in Bases(e)
    THEN [caught |-> TRUE, status |-> "network_error: Connection issue - " \o ErrorText(e)]
    ELSE IF "TelegramError" \in Bases(e)
    THEN [caught |-> TRUE, status |-> "telegram_error: " \o ErrorText(e)]
    ELSE IF "Exception" \in Bases(e)
    THEN [caught |-> TRUE, status |-> "error: " \o ErrorText(e)]
    ELSE [caught |-> FALSE, status |-> ""]

\* one invocation of utils.send_message_to_chat, in the same terms
send_message_to_chat(dry, img, outcome) ==
    IF dry
    THEN [calls |-> <<>>, status |-> "dry_run", paced |-> FALSE, caught |-> TRUE]
    ELSE IF outcome = "ok"
    THEN [calls |-> <<IF img THEN "send_photo" ELSE "send_message">>,
          status |-> "success", paced |-> FALSE, caught |-> TRUE]
    ELSE [calls |-> <<IF img THEN "send_photo" ELSE "send_message">>,
          status |-> send_message_to_chat_except(outcome).status,
          paced |-> FALSE, caught |-> send_message_to_chat_except(outcome).caught]

\* status.split(':')[0] of the results CSV, on the statuses the two sends
\* produce
StatusHeads ==
    {"success", "dry_run", "forbidden", "bad_request", "network_error",
     "telegram_error", "error"}

StatusTails ==
    {""} \cup UNION {{": " \o ErrorText(e),
                      ": Bot was blocked by user or chat not found - " \o ErrorText(e),
                      ": Invalid request - " \o ErrorText(e),
                      ": Connection issue - " \o ErrorText(e)} : e \in ErrorClasses}

status_type(s) == CHOOSE h \in StatusHeads : \E t \in StatusTails : s = h \o t

\* Two sends are given to each implementation: the same payload and dry-run
\* flag, the delivery client doing e[1] for the first and e[2] for the second.
InitAdapter ==
    /\ token = FALSE
    /\ caption_html = FALSE
    /\ confirm_optin = FALSE
    /\ chat_ids = <<>>
    /\ image_bytes = FALSE
    /\ dry_run = FALSE
    /\ max_concurrent = MinConcurrent
    /\ phase = "form"
    /\ error = "none"
    /\ sem_value = 0
    /\ sem_waiters = <<>>
    /\ pc = <<>>
    /\ results = <<>>
    /\ owner = <<>>
    /\ snapshots = <<>>
    /\ calls = <<>>
    /\ call_outcome = <<>>
    /\ returned = <<>>
    /\ summary = <<>>
    /\ chat_history = <<>>
    /\ total_sent = 0
    /\ total_failed = 0
    /\ started = <<>>
    /\ \E dry \in BOOLEAN, img \in BOOLEAN,
          e \in [1..2 -> {"ok"} \cup ErrorClasses] :
          side = [pc |-> "ready", dry |-> dry, img |-> img, e |-> e,
                  one |-> <<>>, util |-> <<>>]

main_vars == <<inputs, phase, error, sem_value, sem_waiters, pc, results, owner,
               snapshots, calls, call_outcome, returned, summary, session>>

\* send_one is run on both sends
SideSendOne ==
    /\ side.pc = "ready"
    /\ side' = [side EXCEPT !.pc = "one",
                            !.one = [k \in 1..2 |-> send_one(side.dry, side.img, side.e[k])]]
    /\ UNCHANGED main_vars

\* send_message_to_chat is run on both sends
SideSendMessageToChat ==
    /\ side.pc = "one"
    /\ side' = [side EXCEPT !.pc = "both",
                            !.util = [k \in 1..2 |->
                                        send_message_to_chat(side.dry, side.img, side.e[k])]]
    /\ UNCHANGED main_vars

NextAdapter == SideSendOne \/ SideSendMessageToChat

SpecAdapter == InitAdapter /\ [][NextAdapter]_vars

\* The event loop runs every task that is ready, every sleep ends, every
\* delivery-client call that has not hung returns or raises, and the script
\* goes on once run_until_complete is over.
Fairness ==
    /\ \A i \in 1..MaxRecipients :
          /\ WF_vars(i \in DOMAIN pc /\ WorkerStart(i))
          /\ WF_vars(i \in DOMAIN pc /\ WorkerAdmitted(i))
          /\ WF_vars(i \in DOMAIN pc /\ \E outcome \in CallOutcomes : CallReturns(i, outcome, "ok"))
          /\ WF_vars(i \in DOMAIN pc /\ SleepEnds(i, "ok"))
    /\ WF_vars(BroadcastReturns)
    /\ WF_vars(BroadcastRaises)
    /\ WF_vars(ShowResults)

\* the run under a fair event loop, every delivery-client call responding
SpecFair == Spec /\ Fairness

\* the run when delivery-client calls may never respond
NextHang == Next \/ \E i \in DOMAIN pc : CallHangs(i)

SpecHang == Init /\ [][NextHang]_vars /\ Fairness

\* ======================================================================
\* Properties
\* ======================================================================
\* number of entries of the sequence of pairs res whose first field is r
RECURSIVE CountId(_, _)
CountId(res, r) ==
    IF res = <<>> THEN 0
    ELSE CountId(Tail(res), r) + (IF Head(res)[1] = r THEN 1 ELSE 0)

\* number of positions of the recipient list that hold r
Occurrences(r) == Cardinality({i \in Tasks : chat_ids[i] = r})

\* number of delivery-client calls made for recipient r
CallsFor(r) == Cardinality({k \in DOMAIN calls : chat_ids[calls[k][1]] = r})

\* the positions of results appended by task i
EntriesOf(i) == {k \in DOMAIN owner : owner[k] = i}

\* the run got past the construction of the delivery client
Dispatched == phase \in {"running", "returned", "shown"} \/ error = "WorkerException"

\* C1: when broadcast returns, the result has one entry per position of
\* the recipient list and the same number of entries for each chat id as
\* the list has positions for it; in a real run each chat id was called as
\* many times as it occurs.
C1_ExactlyOnce ==
    phase = "returned" =>
        /\ Len(results) = Len(chat_ids)
        /\ \A r \in RecipientIds :
              /\ CountId(results, r) = Occurrences(r)
              /\ ~dry_run => CallsFor(r) = Occurrences(r)

C1_Witness ==
    /\ phase = "returned"
    /\ Len(chat_ids) = 3
    /\ chat_ids[1] = chat_ids[3]
    /\ chat_ids[1] # chat_ids[2]
    /\ \E k \in DOMAIN results : IsFailure(results[k][2])
    /\ \E k \in DOMAIN results : IsSuccess(results[k][2])

\* C2: the number of tasks inside the guarded section of send_one (slot
\* held: about to send, sending, simulated send, pacing sleep) never
\* exceeds the concurrency limit.
C2_Budget == Cardinality(Holders) <= max_concurrent

C2_Witness ==
    /\ Cardinality(Holders) = max_concurrent
    /\ Len(sem_waiters) > 0
    /\ \E i \in Holders : pc[i] = "pacing"
    /\ \E i \in Holders : pc[i] = "sending"

\* C3: free slots plus held slots is the concurrency limit at all times of
\* a dispatched run, and all slots are free when the run has returned.
C3_NoLeakedSlot ==
    Dispatched =>
        /\ sem_value + Cardinality(Holders) = max_concurrent
        /\ phase = "returned" => sem_value = max_concurrent

C3_Witness ==
    /\ phase = "returned"
    /\ max_concurrent = 1
    /\ sem_value = 1
    /\ \E i \in Tasks : call_outcome[i] = "Forbidden"
    /\ \E i \in Tasks : call_outcome[i] = "Exception"
    /\ \E i \in Tasks : call_outcome[i] = "ok"

\* C4: in a dry run the delivery client is never called and every result
\* entry has status dry_run.
C4_DryRunPurity ==
    dry_run =>
        /\ calls = <<>>
        /\ \A i \in DOMAIN call_outcome : call_outcome[i] = "none"
        /\ \A k \in DOMAIN results : results[k][2] = "dry_run"

C4_Witness ==
    /\ dry_run
    /\ phase = "returned"
    /\ Len(results) = 3
    /\ max_concurrent = 2

\* C5: broadcast returns only when every worker has recorded its outcome,
\* also when some sends failed.
C5_NoAbortOnFailure ==
    phase = "returned" =>
        \A i \in Tasks : pc[i] = "done" /\ EntriesOf(i) # {}

C5_Witness ==
    /\ phase = "returned"
    /\ max_concurrent = 1
    /\ Len(results) >= 2
    /\ IsFailure(results[1][2])
    /\ IsSuccess(results[2][2])
    /\ owner[1] = 1

\* C6: no error raised by the delivery client leaves send_one: each one is
\* returned as a failure status paired with the recipient of the call.
C6_SendNeverRaises ==
    \A i \in DOMAIN pc :
        /\ pc[i] # "raised_send"
        /\ call_outcome[i] \in RaisedInRun =>
              \E k \in EntriesOf(i) :
                  /\ results[k][1] = chat_ids[i]
                  /\ IsFailure(results[k][2])

C6_Witness ==
    /\ \E i \in DOMAIN pc : call_outcome[i] = "Exception" /\ pc[i] = "done"
    /\ \E i \in DOMAIN pc : call_outcome[i] = "Forbidden" /\ pc[i] = "done"

\* C7: when the construction of the delivery client fails the run has
\* ended with that one error, and no slot was taken, no call made, no
\* result appended and no progress snapshot shown.
C7_ConstructionFailureIsFatal ==
    error = "ConstructionFailure" =>
        /\ phase = "raised"
        /\ pc = <<>>
        /\ sem_waiters = <<>>
        /\ calls = <<>>
        /\ results = <<>>
        /\ snapshots = <<>>

C7_Witness ==
    /\ error = "ConstructionFailure"
    /\ phase = "raised"
    /\ Len(chat_ids) = 3
    /\ ~dry_run

\* C8: a run whose delivery client was constructed never ends with a
\* top-level error.
C8_OnlyConstructionFailureIsFatal ==
    phase = "raised" => error = "ConstructionFailure"

\* C9: the completed counts of successive snapshots never decrease, at
\* most one snapshot reports completed = total, and exactly one has done
\* so when the run returns.
CompleteSnapshots == {k \in DOMAIN snapshots : snapshots[k].completed = snapshots[k].total}

C9_MonotonicProgress ==
    /\ \A k \in DOMAIN snapshots :
          k > 1 => snapshots[k - 1].completed <= snapshots[k].completed
    /\ Cardinality(CompleteSnapshots) <= 1
    /\ phase = "returned" => Cardinality(CompleteSnapshots) = 1

C9_Witness ==
    /\ phase = "returned"
    /\ Len(snapshots) = 3
    /\ max_concurrent = 2
    /\ snapshots[3].completed = 3

\* C10: results never has more entries than there are recipients, has as
\* many only once every worker has completed, and no worker appends more
\* than one entry.
C10_ResultsBounded ==
    /\ Len(results) <= Len(chat_ids)
    /\ Len(results) = Len(chat_ids) =>
          \A i \in Tasks : i \in DOMAIN pc /\ pc[i] \in {"done", "raised_ui"}
    /\ \A i \in Tasks : Cardinality(EntriesOf(i)) <= 1

C10_Witness ==
    /\ phase = "running"
    /\ Len(chat_ids) = 3
    /\ Len(results) = 3
    /\ \A i \in Tasks : pc[i] = "done"

\* the run was cancelled from outside: the script was told to stop, which
\* reaches it as an error raised by the next progress-widget call
Cancelled == \E i \in DOMAIN pc : pc[i] = "raised_ui"

\* C11: once a cancelled run is over, the script holds the entries that
\* were recorded up to then.
C11_CancelKeepsPartialResults ==
    (Cancelled /\ phase # "running") => returned = results

\* C12: every task that holds a slot gives it up again, also when its
\* delivery-client call never responds (the run raising aside).
C12_SlotEventuallyReleased ==
    \A i \in 1..MaxRecipients :
        [](i \in Holders => <>(i \notin Holders \/ phase = "raised"))

\* C13: when every delivery-client call returns or raises, a dispatched
\* run eventually returns with every recipient recorded.
C13_RunTerminates ==
    (phase = "running") ~> (phase = "returned" /\ Len(results) = Len(chat_ids))

\* the tasks whose delivery-client call did what o says
WithOutcome(o) == {i \in DOMAIN call_outcome : call_outcome[i] \in o}

\* C14: every result entry pairs the recipient of the task that appended
\* it with the outcome of that task's own send, and the summary counts
\* sent = the sends that succeeded, failed = the sends that raised.
C14_OwnOutcome ==
    /\ \A k \in DOMAIN results :
          /\ results[k][1] = chat_ids[owner[k]]
          /\ IsSuccess(results[k][2]) <=> call_outcome[owner[k]] = "ok"
          /\ IsFailure(results[k][2]) <=> call_outcome[owner[k]] \in RaisedInRun
          /\ IsFailure(results[k][2]) =>
                results[k][2] = send_one_except(call_outcome[owner[k]]).status
    /\ phase = "shown" =>
          /\ summary[1] = Cardinality(WithOutcome({"ok"}))
          /\ summary[3] = Cardinality(WithOutcome(RaisedInRun))
          /\ summary[2] = Cardinality(WithOutcome({"none"}))

C14_Witness ==
    /\ phase = "shown"
    /\ Len(chat_ids) = 3
    /\ chat_ids[2] = "2"
    /\ call_outcome = <<"ok", "Forbidden", "ok">>
    /\ summary = <<2, 0, 1>>
    /\ owner # <<1, 2, 3>>

\* how many of the first n entries of results count as kind: the
\* multiplicity of that kind among them, whatever their order
Multiplicity(n, kind) ==
    Cardinality({k \in 1..n : Counts(results[k][2], kind)})

\* res with its entries in the opposite order
Reversed(res) == [k \in 1..Len(res) |-> res[Len(res) + 1 - k]]

\* C15: the counters of every progress snapshot and of the summary are the
\* multiplicities of the three kinds among the entries counted, so they
\* are the same for any other order of these entries (the opposite order
\* for one).
C15_CountersIgnoreOrder ==
    /\ \A k \in DOMAIN snapshots :
          LET n == snapshots[k].completed IN
          /\ snapshots[k].sent = Multiplicity(n, "sent")
          /\ snapshots[k].failed = Multiplicity(n, "failed")
          /\ snapshots[k].dry = Multiplicity(n, "dry")
    /\ (Dispatched /\ snapshots # <<>> /\ Len(results) = Len(chat_ids)) =>
          LET last == snapshots[Len(snapshots)]
              other == Snapshot(Reversed(results), Len(chat_ids))
          IN  last.completed = Len(chat_ids) =>
                  /\ last.sent = other.sent
                  /\ last.failed = other.failed
                  /\ last.dry = other.dry
    /\ phase = "shown" =>
          /\ summary = <<Multiplicity(Len(returned), "sent"),
                         Multiplicity(Len(returned), "dry"),
                         Multiplicity(Len(returned), "failed")>>
          /\ summary = Summary(Reversed(returned))

C15_Witness ==
    /\ phase = "shown"
    /\ Len(results) = 3
    /\ Len(snapshots) = 3
    /\ IsFailure(results[1][2])
    /\ IsSuccess(results[2][2])
    /\ IsFailure(results[3][2])
    /\ summary = <<1, 0, 2>>

\* C16: broadcast called with an empty recipient list creates no task,
\* takes no slot, calls nothing, records nothing, shows at most one
\* snapshot, and what it returns is the empty sequence.
C16_EmptyList ==
    chat_ids = <<>> =>
        /\ pc = <<>>
        /\ sem_waiters = <<>>
        /\ Dispatched => sem_value = max_concurrent
        /\ calls = <<>>
        /\ results = <<>>
        /\ Len(snapshots) <= 1
        /\ error # "WorkerException"
        /\ returned = <<>>

C16_Witness ==
    /\ chat_ids = <<>>
    /\ phase = "shown"
    /\ returned = <<>>
    /\ summary = <<0, 0, 0>>

\* the failure kind the error taxonomy gives to an error class
Taxonomy(e) ==
    CASE "Forbidden" \in Bases(e)    -> "PermanentlyUnreachable"
      [] "BadRequest" \in Bases(e)   -> "MalformedRequest"
      [] "NetworkError" \in Bases(e) -> "TransientNetwork"
      [] OTHER                       -> "Uncategorized"

\* C17: two errors of different kinds of the taxonomy are recorded by
\* send_one with different failure kinds.
C17_FourKinds ==
    (/\ side.pc \in {"one", "both"}
     /\ ~side.dry
     /\ side.e[1] \in ErrorClasses
     /\ side.e[2] \in ErrorClasses
     /\ Taxonomy(side.e[1]) # Taxonomy(side.e[2]))
    => status_type(side.one[1].status) # status_type(side.one[2].status)

\* C18: a task gives up its slot only at the end of the pacing sleep.
C18_ReleaseOnlyAfterPacing ==
    [][\A i \in DOMAIN pc : (i \in Holders /\ i \notin Holders') => pc[i] = "pacing"]_vars

\* the stage of the pipeline a position belongs to
Rank(p) ==
    CASE p = "pending"                               -> 0
      [] p = "waiting"                               -> 1
      [] p = "admitted"                              -> 2
      [] p \in {"sending", "dry_sleep"}              -> 3
      [] p \in {"pacing", "hung"}                    -> 4
      [] p \in {"done", "raised_ui", "raised_send"}  -> 5

CallsOf(i) == {k \in DOMAIN calls : calls[k][1] = i}

\* C19: every task only moves forward through pending, admitted, sent,
\* released, recorded; the delivery client is called for it only while it
\* holds a slot, at most once, and its outcome is in results only once it
\* no longer holds the slot.
C19_Pipeline ==
    [][\A i \in DOMAIN pc :
          /\ pc'[i] # pc[i] => Rank(pc'[i]) > Rank(pc[i])
          /\ CallsOf(i)' # CallsOf(i) => i \in Holders'
          /\ Cardinality(CallsOf(i)') <= 1
          /\ EntriesOf(i)' # {} => (i \notin Holders' /\ Rank(pc'[i]) = 5)
          /\ Cardinality(EntriesOf(i)') <= 1]_vars

C19_Witness ==
    /\ phase = "returned"
    /\ max_concurrent = 1
    /\ ~dry_run
    /\ Len(chat_ids) = 3
    /\ owner = <<1, 2, 3>>
    /\ Len(calls) = 3

\* C20: in a real run every task that got past admission has made exactly
\* one delivery-client call, send_photo when there is an image and
\* send_message when there is none; the others have made none.
C20_ExactlyOneCall ==
    ~dry_run =>
        \A i \in DOMAIN pc :
            IF Rank(pc[i]) <= 2
            THEN CallsOf(i) = {}
            ELSE /\ Cardinality(CallsOf(i)) = 1
                 /\ \A k \in CallsOf(i) :
                       calls[k][2] = (IF image_bytes THEN "send_photo" ELSE "send_message")

C20_Witness ==
    /\ ~dry_run
    /\ image_bytes
    /\ phase = "returned"
    /\ Len(calls) = 3
    /\ \E i \in Tasks : call_outcome[i] = "Forbidden"
    /\ \A k \in DOMAIN calls : calls[k][2] = "send_photo"

\* the tasks whose progress-widget call raised
RaisedInUi == {i \in DOMAIN pc : pc[i] = "raised_ui"}

\* C21: every completion whose progress-widget calls did not raise has
\* shown exactly one snapshot, taken of results as they were right after
\* its own entry was appended; with no such raise the k-th snapshot
\* reports completed = k, and a run that returned has shown one snapshot
\* per recipient.
C21_OneSnapshotPerCompletion ==
    /\ Len(snapshots) = Len(results) - Cardinality(RaisedInUi)
    /\ \A k \in DOMAIN snapshots :
          LET n == snapshots[k].completed IN
          /\ n \in 1..Len(results)
          /\ k > 1 => snapshots[k - 1].completed < n
          /\ snapshots[k].pending = Len(chat_ids) - n
          /\ snapshots[k].sent + snapshots[k].failed + snapshots[k].dry = n
    /\ RaisedInUi = {} => \A k \in DOMAIN snapshots : snapshots[k].completed = k
    /\ phase \in {"returned", "shown"} => Len(snapshots) = Len(chat_ids)

C21_Witness ==
    /\ phase = "returned"
    /\ max_concurrent = 2
    /\ Len(chat_ids) = 3
    /\ Len(snapshots) = 3
    /\ snapshots[1].sent = 1
    /\ snapshots[2].failed = 1
    /\ snapshots[3].sent = 2

\* the tasks that have completed: their send is over and its outcome recorded
Completed(p) == {i \in DOMAIN p : p[i] \in {"done", "raised_ui"}}

\* C22: the entry of a task is put at the end of results in the step in
\* which the task completes, so results is in completion order, which
\* need not be the input order.
C22_CompletionOrder ==
    [][\A i \in DOMAIN pc :
          (i \in Completed(pc') /\ i \notin Completed(pc)) =>
              /\ Len(results') = Len(results) + 1
              /\ owner'[Len(results')] = i
              /\ results'[Len(results')][1] = chat_ids[i]
              /\ \A k \in DOMAIN owner : owner[k] \in Completed(pc)]_vars

C22_Witness ==
    /\ phase = "returned"
    /\ max_concurrent = 2
    /\ chat_ids = <<"1", "2", "1">>
    /\ owner = <<2, 1, 3>>
    /\ results[1][1] = "2"

\* C23: a step that changes results adds one entry at the end and leaves
\* the entries recorded before as they were and where they were.
C23_AppendOnly ==
    [][results' # results =>
          /\ Len(results') = Len(results) + 1
          /\ SubSeq(results', 1, Len(results)) = results]_vars

C23_Witness ==
    /\ phase = "running"
    /\ Len(results) = 2
    /\ IsFailure(results[1][2])
    /\ IsSuccess(results[2][2])
    /\ \E i \in DOMAIN pc : pc[i] = "pacing"

\* status s is counted as one kind and no other
OneKind(s) ==
    \/ Counts(s, "sent") /\ ~Counts(s, "failed") /\ ~Counts(s, "dry")
    \/ ~Counts(s, "sent") /\ Counts(s, "failed") /\ ~Counts(s, "dry")
    \/ ~Counts(s, "sent") /\ ~Counts(s, "failed") /\ Counts(s, "dry")

\* C24: in every snapshot the four counters add up to the total, pending
\* is total minus completed, no counter is negative, and every recorded
\* status is counted as exactly one of sent, failed, dry.
C24_CountersSum ==
    /\ \A k \in DOMAIN snapshots :
          LET s == snapshots[k] IN
          /\ s.total = Len(chat_ids)
          /\ s.sent + s.failed + s.dry + s.pending = s.total
          /\ s.pending = s.total - s.completed
          /\ s.sent >= 0 /\ s.failed >= 0 /\ s.dry >= 0 /\ s.pending >= 0
          /\ s.completed >= 0
    /\ \A k \in DOMAIN results : OneKind(results[k][2])

C24_Witness ==
    /\ phase = "running"
    /\ Len(chat_ids) = 3
    /\ Len(snapshots) = 2
    /\ snapshots[2].sent = 1
    /\ snapshots[2].failed = 1
    /\ snapshots[2].pending = 1

\* C25: a task waits for a slot only while it is queued at the semaphore,
\* no slot is free and some task holds one; the queue holds waiting tasks
\* only.
C25_NoDeadlock ==
    /\ \A i \in DOMAIN pc :
          pc[i] = "waiting" =>
              /\ \E k \in DOMAIN sem_waiters : sem_waiters[k] = i
              /\ sem_value = 0
              /\ Holders # {}
    /\ \A k \in DOMAIN sem_waiters : pc[sem_waiters[k]] = "waiting"

C25_Witness ==
    /\ max_concurrent = 1
    /\ Len(sem_waiters) = 1
    /\ Len(results) = 1
    /\ \E i \in Holders : pc[i] = "admitted"

\* C26: the script is past the send button only when the token is set, the
\* text non-blank, the list non-empty and the opt-in ticked; with one of
\* them missing nothing was saved to the history, no task was created, no
\* call made, no result recorded and no total changed.
C26_SendGuard ==
    LET ready == token /\ caption_html /\ chat_ids # <<>> /\ confirm_optin IN
    /\ phase # "form" => ready
    /\ ~ready =>
          /\ chat_history = <<>>
          /\ started = <<>>
          /\ pc = <<>>
          /\ calls = <<>>
          /\ results = <<>>
          /\ total_sent = 0
          /\ total_failed = 0

C26_Witness ==
    /\ phase = "shown"
    /\ token /\ caption_html /\ confirm_optin
    /\ Len(chat_ids) = 1
    /\ Len(chat_history) = 1
    /\ total_sent = 1

\* C27: the step that ends a run with its summary adds to total_sent the
\* number of sends that succeeded and to total_failed the number that
\* raised, nothing at all after a dry run; any other step leaves the two
\* totals alone or resets both.
C27_SessionTotals ==
    [][IF phase = "returned" /\ phase' = "shown"
       THEN /\ total_sent' = total_sent + Cardinality(WithOutcome({"ok"}))
            /\ total_failed' = total_failed + Cardinality(WithOutcome(RaisedInRun))
            /\ dry_run => UNCHANGED <<total_sent, total_failed>>
       ELSE \/ UNCHANGED <<total_sent, total_failed>>
            \/ total_sent' = 0 /\ total_failed' = 0 /\ chat_history' = <<>>]_vars

C27_Witness ==
    /\ phase = "shown"
    /\ dry_run
    /\ Len(started) = 3
    /\ total_sent = 2
    /\ total_failed = 1
    /\ summary = <<0, 2, 0>>

\* C28: the history never holds more than ten entries, and its entries
\* are the lists of the latest broadcasts started, oldest first.
C28_HistoryBounded ==
    /\ Len(chat_history) <= 10
    /\ Len(chat_history) = (IF Len(started) < 10 THEN Len(started) ELSE 10)
    /\ \A k \in DOMAIN chat_history :
          /\ chat_history[k].ids = started[Len(started) - Len(chat_history) + k]
          /\ chat_history[k].count = Len(chat_history[k].ids)

C28_Witness ==
    /\ Len(started) = 11
    /\ Len(chat_history) = 10
    /\ started[1] # started[2]
    /\ started[11] # started[10]
    /\ phase = "shown"

\* the task at position p has not been given a slot yet
NotAdmitted(p) == p \in {"pending", "waiting"}

\* C29: a task is admitted only when every task before it in the input
\* has been admitted, and the queue of the semaphore is in input order.
C29_AdmissionOrder ==
    /\ \A i \in DOMAIN pc : \A j \in 1..(i - 1) :
          NotAdmitted(pc[j]) => NotAdmitted(pc[i])
    /\ \A k \in DOMAIN sem_waiters :
          k > 1 => sem_waiters[k - 1] < sem_waiters[k]

C29_Witness ==
    /\ max_concurrent = 1
    /\ Len(chat_ids) = 3
    /\ pc = <<"done", "admitted", "waiting">>

\* success, dry_run or failure
Kind(s) == IF s \in {"success", "dry_run"} THEN s ELSE "failure"

\* C30: given the same payload, dry-run flag and delivery-client behaviour,
\* send_one and send_message_to_chat make the same delivery-client calls,
\* both return a status, and the two statuses are of the same kind.
C30_SendsAgree ==
    side.pc = "both" =>
        \A k \in 1..2 :
            /\ side.one[k].calls = side.util[k].calls
            /\ side.one[k].caught = side.util[k].caught
            /\ Kind(side.one[k].status) = Kind(side.util[k].status)

C30_Witness ==
    /\ side.pc = "both"
    /\ ~side.dry
    /\ side.img
    /\ side.e = <<"ok", "BadRequest">>
    /\ side.one[2].status # side.util[2].status

====
